---- MODULE Spec2Model ----
(***************************************************************************)
(* A model of the Scoutnet client: the list aggregator (get_list), the     *)
(* roster/lists orchestrator (get_all_members, get_all_lists), the raw     *)
(* payload dump/restore pair, and the legacy phone normaliser.             *)
(*                                                                         *)
(* Conventions                                                             *)
(*  - a Python str is a sequence of code points (so that lower() and the   *)
(*    ordering used by sorted() are computed, not assumed);                *)
(*  - an Optional[T] is a sequence of length <= 1: <<>> is None and <<x>>  *)
(*    is the value x;                                                      *)
(*  - a dict read in iteration order is the sequence of its items;         *)
(*  - the HTTP transport is a function from URL to the JSON it returns     *)
(*    (a 2xx response); a request appends its URL to `requests`.           *)
(***************************************************************************)
EXTENDS Integers, Sequences, FiniteSets, TLC

VARIABLES
    session_memberlist,   \* TRUE iff self.session_memberlist is a Session
    session_customlists,  \* TRUE iff self.session_customlists is a Session
    memberlist_fn,        \* self.memberlist: <<>> the method, <<d>> a lambda returning d
    customlists_fn,       \* self.customlists: likewise
    dump_file,            \* the dump file: <<>> not written, <<[memberlist, customlists]>>
    svc_memberlist,       \* what GET {endpoint}/group/memberlist returns ("data" items)
    svc_customlists,      \* what GET {endpoint}/group/customlists returns (items)
    svc_members,          \* what GET <link> returns ("data" values), per link
    op,                   \* the operation in progress or last run
    pc,                   \* "idle", "loop", "done" (returned) or "raised"
    error,                \* the exception raised, "" if none
    limit,                \* get_all_lists argument, Optional[int]
    fetch_members,        \* get_all_lists / get_list argument
    list_ids,             \* get_all_lists argument, Optional[set]
    items,                \* the customlists items being iterated
    idx,                  \* position of the for loop in items
    count,                \* get_all_lists local
    all_mlists,           \* get_all_lists local, returned at "done"
    considered,           \* keys of the lists passed to get_list, in order
    requests,             \* URLs requested during the current operation
    res,                  \* get_all_members result
    list_data,            \* get_list argument (direct call)
    mlist,                \* get_list result, Optional
    phone,                \* phone_to_e164 argument, Optional[str]
    phone_out             \* phone_to_e164 result, Optional[str]

vars == <<session_memberlist, session_customlists, memberlist_fn, customlists_fn,
          dump_file, svc_memberlist, svc_customlists, svc_members, op, pc, error,
          limit, fetch_members, list_ids, items, idx, count, all_mlists,
          considered, requests, res, list_data, mlist, phone, phone_out>>

----------------------------------------------------------------------------
(* Bounds of the model. *)

MaxLists == 2      \* lists in a customlists payload
MaxLimit == 2      \* largest limit passed to get_all_lists
MaxRecords == 2    \* member records in a per-list payload
MaxRoster == 2     \* entries in a roster payload
MaxPieces == 4     \* pieces a phone string is assembled from

----------------------------------------------------------------------------
(* Python values. *)

None == <<>>
Some(x) == <<x>>

\* dict.get(k) / dict.get(k, default) on a record whose keys may be absent
Get(d, k) == IF k \in DOMAIN d THEN Some(d[k]) ELSE None
GetOr(d, k, default) == IF k \in DOMAIN d THEN d[k] ELSE default

Range(s) == {s[i] : i \in DOMAIN s}

\* str.lower() on the ASCII letters: 'A'..'Z' (65..90) -> 'a'..'z' (97..122)
LowerChar(c) == IF c \in 65..90 THEN c + 32 ELSE c
Lower(s) == [i \in 1..Len(s) |-> LowerChar(s[i])]

\* str < str: code point order, a proper prefix first
RECURSIVE StrLess(_, _)
StrLess(a, b) ==
    IF b = <<>> THEN FALSE
    ELSE IF a = <<>> THEN TRUE
    ELSE IF a[1] # b[1] THEN a[1] < b[1]
    ELSE StrLess(Tail(a), Tail(b))

\* sorted(list(S)) for a set S of str
RECURSIVE sorted(_)
sorted(S) ==
    IF S = {} THEN <<>>
    ELSE LET m == CHOOSE x \in S : \A y \in S : x = y \/ StrLess(x, y)
         IN <<m>> \o sorted(S \ {m})

----------------------------------------------------------------------------
(* models.py: the record validators. *)

\* ScoutnetBaseModel.data_validate: keep the fields that carry a "value"
data_validate(data) ==
    [k \in {f \in DOMAIN data : "value" \in DOMAIN data[f]} |-> data[k].value]

\* EmailStr: one '@' (64) with a non-empty local part and a non-empty domain
IsEmail(s) ==
    /\ Cardinality({i \in DOMAIN s : s[i] = 64}) = 1
    /\ s[1] # 64
    /\ s[Len(s)] # 64

\* the email validators of both record classes: v.lower()
lowercase_email(v) == Lower(v)

\* variant: the extra addresses kept as given
lowercase_extra_emails_keep_case(v) == v

\* lowercase_extra_emails: [x.lower() for x in v]
lowercase_extra_emails(v) == [i \in 1..Len(v) |-> Lower(v[i])]

\* ScoutnetMailinglistMember.model_validate on the unwrapped fields:
\* None for a ValidationError, else the record
MailinglistMember_validate(u) ==
    IF /\ {"member_no", "first_name", "last_name", "extra_emails"} \subseteq DOMAIN u
       /\ "email" \in DOMAIN u => IsEmail(u.email)
       /\ \A i \in 1..Len(u.extra_emails) : IsEmail(u.extra_emails[i])
    THEN Some([member_no |-> u.member_no,
               first_name |-> u.first_name,
               last_name |-> u.last_name,
               email |-> IF "email" \in DOMAIN u
                         THEN Some(lowercase_email(u.email)) ELSE None,
               extra_emails |-> lowercase_extra_emails(u.extra_emails)])
    ELSE None

\* ScoutnetMember.model_validate on the unwrapped fields (the optional
\* contact_mobile_phone is never set in the payloads of this model)
Member_validate(u) ==
    IF /\ {"member_no", "first_name", "last_name", "date_of_birth", "group"}
              \subseteq DOMAIN u
       /\ "email" \in DOMAIN u => IsEmail(u.email)
       /\ "contact_alt_email" \in DOMAIN u => IsEmail(u.contact_alt_email)
    THEN Some([member_no |-> u.member_no,
               first_name |-> u.first_name,
               last_name |-> u.last_name,
               date_of_birth |-> u.date_of_birth,
               group |-> u.group,
               email |-> IF "email" \in DOMAIN u
                         THEN Some(lowercase_email(u.email)) ELSE None,
               contact_alt_email |-> IF "contact_alt_email" \in DOMAIN u
                         THEN Some(lowercase_email(u.contact_alt_email)) ELSE None])
    ELSE None

----------------------------------------------------------------------------
(* client.py: get_list. *)

\* variant: the session checked before the link
get_list_precheck_session_first(url, fm, session) ==
    IF fm /\ ~session THEN "RuntimeError"
    ELSE IF url = None THEN "ValueError"
    ELSE ""

\* variant: the link checked only when members are wanted
get_list_precheck_link_when_fetching(url, fm, session) ==
    IF fm /\ url = None THEN "ValueError"
    ELSE IF fm /\ ~session THEN "RuntimeError"
    ELSE ""

\* the checks made before the member request: the link (lines 81-85) and,
\* when members are wanted, the session (lines 89-91); "" when both pass
get_list_precheck(url, fm, session) ==
    IF url = None THEN "ValueError"
    ELSE IF fm /\ ~session THEN "RuntimeError"
    ELSE ""

\* variant: the request made whatever fetch_members is
fetch_list_data_always(url, fm, svc) == Some(svc[url[1]])

\* the member request: the "data" of the response when fetch_members, else
\* no request at all
fetch_list_data(url, fm, svc) == IF fm THEN Some(svc[url[1]]) ELSE None

\* members[member.member_no] = member over the records in payload order
RECURSIVE members_of(_)
members_of(ms) ==
    IF ms = <<>> THEN <<>>
    ELSE LET m == ms[Len(ms)]
         IN (m.member_no :> m) @@ members_of(SubSeq(ms, 1, Len(ms) - 1))

\* what one member adds to recipients: its email if any, and every extra
recipients_of_member(m) ==
    (IF m.email # None /\ m.email[1] # <<>> THEN {m.email[1]} ELSE {})
        \cup Range(m.extra_emails)

recipients_of(ms) == UNION {recipients_of_member(ms[i]) : i \in DOMAIN ms}

\* aliases = list(set(list_aliases.values())) if len(list_aliases) > 0 else []
aliases_of(ld) ==
    LET list_aliases == GetOr(ld, "aliases", <<>>)
    IN IF Len(list_aliases) > 0 THEN Range(list_aliases) ELSE {}

\* get_list: the exception it raises ("" if none), the requests it makes and
\* the ScoutnetMailinglist it returns
get_list(ld, fm, session, svc) ==
    LET url == Get(ld, "link")
        pre == get_list_precheck(url, fm, session)
        data == fetch_list_data(url, fm, svc)
        raw == IF data = None THEN <<>> ELSE data[1]
        val == [i \in 1..Len(raw) |-> MailinglistMember_validate(data_validate(raw[i]))]
        err == IF pre # "" THEN pre
               ELSE IF \E i \in 1..Len(raw) : val[i] = None THEN "ValidationError"
               ELSE ""
        ms == [i \in 1..Len(raw) |-> val[i][1]]
    IN [error |-> err,
        requests |-> IF pre # "" \/ data = None THEN <<>> ELSE url,
        mlist |-> IF err # "" THEN None
                  ELSE Some([id |-> ld.id,
                             aliases |-> sorted(aliases_of(ld)),
                             members |-> IF data = None THEN None
                                         ELSE Some(members_of(ms)),
                             recipients |-> IF data = None THEN None
                                            ELSE Some(sorted(recipients_of(ms))),
                             title |-> Get(ld, "title"),
                             description |-> Get(ld, "description")])]

----------------------------------------------------------------------------
(* client.py: the raw fetches. *)

\* self.memberlist(): the patched lambda returns its data without a request;
\* the method raises without a session, else requests the roster
memberlist(fn, session, svc) ==
    IF fn # None THEN [error |-> "", requests |-> <<>>, value |-> fn[1]]
    ELSE IF ~session THEN [error |-> "RuntimeError", requests |-> <<>>, value |-> <<>>]
    ELSE [error |-> "", requests |-> <<"memberlist">>, value |-> svc]

\* self.customlists(): likewise for the customlists payload
customlists(fn, session, svc) ==
    IF fn # None THEN [error |-> "", requests |-> <<>>, value |-> fn[1]]
    ELSE IF ~session THEN [error |-> "RuntimeError", requests |-> <<>>, value |-> <<>>]
    ELSE [error |-> "", requests |-> <<"customlists">>, value |-> svc]

----------------------------------------------------------------------------
(* The locals of the operation in progress. *)

Idle == pc = "idle"

SetOp(o, p, e, req) ==
    /\ op' = o
    /\ pc' = p
    /\ error' = e
    /\ requests' = req

SetLists(lim, fm, ids, its, i, c, all, cons) ==
    /\ limit' = lim
    /\ fetch_members' = fm
    /\ list_ids' = ids
    /\ items' = its
    /\ idx' = i
    /\ count' = c
    /\ all_mlists' = all
    /\ considered' = cons

ClearLists == SetLists(None, TRUE, None, <<>>, 1, 0, <<>>, <<>>)

ClearList == list_data' = <<>> /\ mlist' = None

ClearPhone == phone' = None /\ phone_out' = None

client == <<session_memberlist, session_customlists, memberlist_fn, customlists_fn>>

service == <<svc_memberlist, svc_customlists, svc_members>>

----------------------------------------------------------------------------
(* client.py: get_all_members. *)

\* {int(k): ScoutnetMember.data_validate(v) for k, v in ...items()}
RECURSIVE roster_of(_)
roster_of(its) ==
    IF its = <<>> THEN <<>>
    ELSE LET e == its[Len(its)]
         IN (e.key :> Member_validate(data_validate(e.data))[1])
                @@ roster_of(SubSeq(its, 1, Len(its) - 1))

get_all_members ==
    /\ Idle
    /\ LET m == memberlist(memberlist_fn, session_memberlist, svc_memberlist)
           bad == \E i \in 1..Len(m.value) :
                      Member_validate(data_validate(m.value[i].data)) = None
       IN IF m.error # "" THEN /\ SetOp("get_all_members", "raised", m.error, m.requests)
                               /\ res' = <<>>
          ELSE IF bad THEN /\ SetOp("get_all_members", "raised", "ValidationError", m.requests)
                           /\ res' = <<>>
          ELSE /\ SetOp("get_all_members", "done", "", m.requests)
               /\ res' = roster_of(m.value)
    /\ ClearLists /\ ClearList /\ ClearPhone
    /\ UNCHANGED <<client, dump_file, service>>

----------------------------------------------------------------------------
(* client.py: get_all_lists, one action per step of its for loop. *)

\* `if list_ids and int(list_id) not in list_ids: continue`
skipped(ids, key) == ids # None /\ ids[1] # {} /\ key \notin ids[1]

\* variant: every list goes into all_mlists
included_always(ml) == TRUE

\* `if len(mlist.aliases) > 0:` the list goes into all_mlists
included(ml) == Len(ml.aliases) > 0

\* `if limit is not None and count >= limit: break`
limit_reached(lim, c) == lim # None /\ c >= lim[1]

\* the call: all_mlists = {}, count = 0, and the customlists fetch
call_get_all_lists(lim, fm, ids) ==
    /\ Idle
    /\ LET c == customlists(customlists_fn, session_customlists, svc_customlists)
       IN /\ SetOp("get_all_lists", IF c.error # "" THEN "raised" ELSE "loop",
                   c.error, c.requests)
          /\ SetLists(lim, fm, ids, c.value, 1, 0, <<>>, <<>>)
    /\ res' = <<>>
    /\ ClearList /\ ClearPhone
    /\ UNCHANGED <<client, dump_file, service>>

\* one iteration of the loop body on items[idx]
loop_step ==
    /\ pc = "loop"
    /\ idx <= Len(items)
    /\ LET e == items[idx]
           r == get_list(e.data, fetch_members, session_customlists, svc_members)
       IN IF skipped(list_ids, e.key)
          THEN /\ idx' = idx + 1
               /\ UNCHANGED <<pc, error, requests, count, all_mlists, considered>>
          ELSE /\ count' = count + 1
               /\ considered' = Append(considered, e.key)
               /\ requests' = requests \o r.requests
               /\ IF r.error # ""
                  THEN /\ pc' = "raised"
                       /\ error' = r.error
                       /\ UNCHANGED <<idx, all_mlists>>
                  ELSE /\ all_mlists' = IF included(r.mlist[1])
                                        THEN (e.key :> r.mlist[1]) @@ all_mlists
                                        ELSE all_mlists
                       /\ pc' = IF limit_reached(limit, count + 1) THEN "done" ELSE "loop"
                       /\ idx' = IF limit_reached(limit, count + 1) THEN idx ELSE idx + 1
                       /\ UNCHANGED error
    /\ UNCHANGED <<op, limit, fetch_members, list_ids, items, res, list_data, mlist,
                   phone, phone_out, client, dump_file, service>>

\* the loop is exhausted: return all_mlists
loop_end ==
    /\ pc = "loop"
    /\ idx > Len(items)
    /\ pc' = "done"
    /\ UNCHANGED <<op, error, requests, limit, fetch_members, list_ids, items, idx,
                   count, all_mlists, considered, res, list_data, mlist,
                   phone, phone_out, client, dump_file, service>>

\* a direct call of get_list on one list's metadata
call_get_list(ld, fm) ==
    /\ Idle
    /\ LET r == get_list(ld, fm, session_customlists, svc_members)
       IN /\ SetOp("get_list", IF r.error # "" THEN "raised" ELSE "done",
                   r.error, r.requests)
          /\ mlist' = r.mlist
    /\ list_data' = ld
    /\ SetLists(None, fm, None, <<>>, 1, 0, <<>>, <<>>)
    /\ res' = <<>>
    /\ ClearPhone
    /\ UNCHANGED <<client, dump_file, service>>

\* the operation has returned or raised: the client is ready for the next
finish ==
    /\ pc \in {"done", "raised"}
    /\ SetOp("", "idle", "", <<>>)
    /\ ClearLists /\ ClearList /\ ClearPhone
    /\ res' = <<>>
    /\ UNCHANGED <<client, dump_file, service>>

----------------------------------------------------------------------------
(* client.py: __init__, dump and restore. *)

\* ScoutnetClient(api_id, api_key_memberlist, api_key_customlists): a new
\* object, a session per key given, its methods unpatched
init_client(key_memberlist, key_customlists) ==
    /\ Idle
    /\ session_memberlist' = key_memberlist
    /\ session_customlists' = key_customlists
    /\ memberlist_fn' = None
    /\ customlists_fn' = None
    /\ UNCHANGED <<op, pc, error, requests, limit, fetch_members, list_ids, items,
                   idx, count, all_mlists, considered, res, list_data, mlist,
                   phone, phone_out, dump_file, service>>

\* dump: fetch both payloads, patch both methods, write the file (json.dump
\* of what response.json() gave reads back as the same value)
dump ==
    /\ Idle
    /\ LET m == memberlist(memberlist_fn, session_memberlist, svc_memberlist)
           c == customlists(customlists_fn, session_customlists, svc_customlists)
       IN IF m.error # ""
          THEN /\ SetOp("dump", "raised", m.error, m.requests)
               /\ UNCHANGED <<memberlist_fn, customlists_fn, dump_file>>
          ELSE IF c.error # ""
          THEN /\ SetOp("dump", "raised", c.error, m.requests \o c.requests)
               /\ UNCHANGED <<memberlist_fn, customlists_fn, dump_file>>
          ELSE /\ SetOp("dump", "done", "", m.requests \o c.requests)
               /\ memberlist_fn' = Some(m.value)
               /\ customlists_fn' = Some(c.value)
               /\ dump_file' = Some([memberlist |-> m.value, customlists |-> c.value])
    /\ ClearLists /\ ClearList /\ ClearPhone
    /\ res' = <<>>
    /\ UNCHANGED <<session_memberlist, session_customlists, service>>

\* restore: read the file, patch both methods to return its payloads
restore ==
    /\ Idle
    /\ IF dump_file = None
       THEN /\ SetOp("restore", "raised", "FileNotFoundError", <<>>)
            /\ UNCHANGED <<memberlist_fn, customlists_fn>>
       ELSE /\ SetOp("restore", "done", "", <<>>)
            /\ memberlist_fn' = Some(dump_file[1].memberlist)
            /\ customlists_fn' = Some(dump_file[1].customlists)
    /\ ClearLists /\ ClearList /\ ClearPhone
    /\ res' = <<>>
    /\ UNCHANGED <<session_memberlist, session_customlists, dump_file, service>>

----------------------------------------------------------------------------
(* scoutnet.py: ScoutnetMember.phone_to_e164. *)

MinDigits == 11

IsDigit(c) == c \in 48..57

\* \s on the ASCII range: tab, newline, vertical tab, form feed, return, space
IsSpace(c) == c \in {9, 10, 11, 12, 13, 32}

\* re.match(r"^\+\d{11,}$", s) for s without a newline
IsE164(s) ==
    /\ Len(s) >= 1 + MinDigits
    /\ s[1] = 43
    /\ \A i \in 2..Len(s) : IsDigit(s[i])

\* `if phone:` a str is true unless it is empty
truthy(p) == p # None /\ p[1] # <<>>

phone_to_e164(p) ==
    IF truthy(p)
    THEN LET s1 == SelectSeq(p[1], LAMBDA c : c # 45 /\ ~IsSpace(c))
             s2 == IF s1 # <<>> /\ s1[1] = 48 THEN <<43, 52, 54>> \o Tail(s1) ELSE s1
             s3 == IF s2 # <<>> /\ s2[1] \in 49..57 THEN <<43>> \o s2 ELSE s2
         IN IF ~IsE164(s3) THEN None ELSE Some(s3)
    ELSE p

call_phone_to_e164 ==
    /\ Idle
    /\ SetOp("phone_to_e164", "done", "", <<>>)
    /\ phone_out' = phone_to_e164(phone)
    /\ ClearLists /\ ClearList
    /\ UNCHANGED <<phone, res, client, dump_file, service>>

----------------------------------------------------------------------------
(* The payloads the service is taken to return. *)

\* "a@x", "A@X", "b@x", "B@x" and, not an address, "ax"
a_x == <<97, 64, 120>>
A_X == <<65, 64, 88>>
b_x == <<98, 64, 120>>
B_x == <<66, 64, 120>>
ax == <<97, 120>>

\* alias addresses "k@s" and "n@s", a title "T"
k_s == <<107, 64, 115>>
n_s == <<110, 64, 115>>
T == <<84>>

\* a field record that carries a value, and one that does not
Field(v) == [value |-> v]
NoValue == [raw_value |-> <<>>]

\* customlists: the ids the service may use as keys, each list's link
ListKeys == {1, 2, 3}
LinkOf(k) == <<"u1", "u2", "u3">>[k]
Links == {LinkOf(k) : k \in ListKeys}

\* the metadata of list k: "id" is k or differs from the key, "link" and
\* "aliases" are present or not
ListDataOf(k, idChoices, aliasChoices) ==
    {[id |-> i, title |-> T] @@ l @@ a :
        i \in idChoices,
        l \in {<<>>, [link |-> LinkOf(k)]},
        a \in aliasChoices}

AliasesFew == {<<>>, [aliases |-> <<>>], [aliases |-> <<n_s, k_s>>]}

AliasesMany == AliasesFew \cup {[aliases |-> <<k_s>>], [aliases |-> <<n_s, k_s, n_s>>]}

ListEntries ==
    UNION {{[key |-> k, data |-> d] : d \in ListDataOf(k, {k, k + 10}, AliasesFew)} :
              k \in ListKeys}

\* the dicts of at most n entries, their keys distinct
Payloads(entries, n) ==
    UNION {{s \in [1..m -> entries] :
               \A i, j \in 1..m : i # j => s[i].key # s[j].key} : m \in 0..n}

\* a per-list member record
MemberRecord(no, email, extras) ==
    [member_no |-> Field(no), first_name |-> Field(T), last_name |-> Field(T),
     extra_emails |-> Field(extras)] @@ email

\* the member payloads behind the links in the orchestrator's model: one
\* member, none, and two of which the second does not validate
MembersFixed ==
    [u \in Links |->
        IF u = "u1" THEN <<MemberRecord(1, [email |-> Field(A_X)], <<b_x>>)>>
        ELSE IF u = "u2" THEN <<>>
        ELSE <<MemberRecord(1, <<>>, <<>>), MemberRecord(2, [email |-> Field(ax)], <<>>)>>]

Limits == {None} \cup {Some(n) : n \in 0..MaxLimit}

ListIds == {None, Some({}), Some({1}), Some({2, 3}), Some({1, 2, 3})}

----------------------------------------------------------------------------
(* Spec: a live client, get_all_lists and get_list. *)

Init ==
    /\ session_memberlist = TRUE
    /\ session_customlists \in BOOLEAN
    /\ memberlist_fn = None
    /\ customlists_fn = None
    /\ dump_file = None
    /\ svc_memberlist = <<>>
    /\ svc_customlists \in Payloads(ListEntries, MaxLists)
    /\ svc_members = MembersFixed
    /\ op = "" /\ pc = "idle" /\ error = "" /\ requests = <<>>
    /\ limit = None /\ fetch_members = TRUE /\ list_ids = None /\ items = <<>>
    /\ idx = 1 /\ count = 0 /\ all_mlists = <<>> /\ considered = <<>>
    /\ res = <<>> /\ list_data = <<>> /\ mlist = None
    /\ phone = None /\ phone_out = None

Next ==
    \/ \E lim \in Limits, fm \in BOOLEAN, ids \in ListIds :
           call_get_all_lists(lim, fm, ids)
    \/ loop_step
    \/ loop_end
    \/ \E i \in 1..Len(svc_customlists), fm \in BOOLEAN :
           call_get_list(svc_customlists[i].data, fm)
    \/ finish

Spec == Init /\ [][Next]_vars

----------------------------------------------------------------------------
(* SpecList: get_list on one list, over its aliases and its member payload. *)

\* the records of a member payload: email unset, lower case, upper case or
\* not an address; extra_emails empty, mixed case, upper case
MemberRecords ==
    {MemberRecord(no, e, x) :
        no \in {1, 2},
        e \in {[email |-> NoValue], [email |-> Field(a_x)],
               [email |-> Field(A_X)], [email |-> Field(ax)]},
        x \in {<<>>, <<A_X, b_x>>, <<B_x>>}}

MemberPayloads == UNION {[1..n -> MemberRecords] : n \in 0..MaxRecords}

InitList ==
    /\ session_memberlist = TRUE
    /\ session_customlists \in BOOLEAN
    /\ memberlist_fn = None
    /\ customlists_fn = None
    /\ dump_file = None
    /\ svc_memberlist = <<>>
    /\ \E d \in ListDataOf(1, {1}, AliasesMany) :
           svc_customlists = <<[key |-> 1, data |-> d]>>
    /\ \E recs \in MemberPayloads :
           svc_members = [u \in Links |-> IF u = LinkOf(1) THEN recs ELSE <<>>]
    /\ op = "" /\ pc = "idle" /\ error = "" /\ requests = <<>>
    /\ limit = None /\ fetch_members = TRUE /\ list_ids = None /\ items = <<>>
    /\ idx = 1 /\ count = 0 /\ all_mlists = <<>> /\ considered = <<>>
    /\ res = <<>> /\ list_data = <<>> /\ mlist = None
    /\ phone = None /\ phone_out = None

NextList == \E fm \in BOOLEAN : call_get_list(svc_customlists[1].data, fm)

SpecList == InitList /\ [][NextList]_vars

----------------------------------------------------------------------------
(* SpecMembers: get_all_members over the roster payload. *)

RosterKeys == {1, 2, 3}

\* a roster record: member_no agrees with the key, differs from it or has no
\* value; email absent, an address or not an address
RosterRecords(k) ==
    {[member_no |-> no, first_name |-> Field(T), last_name |-> Field(T),
      date_of_birth |-> Field(T), group |-> Field(T)] @@ e :
        no \in {Field(k), Field(k + 1), NoValue},
        e \in {<<>>, [email |-> Field(A_X)], [email |-> Field(ax)]}}

RosterEntries ==
    UNION {{[key |-> k, data |-> d] : d \in RosterRecords(k)} : k \in RosterKeys}

InitMembers ==
    /\ session_memberlist \in BOOLEAN
    /\ session_customlists = TRUE
    /\ memberlist_fn = None
    /\ customlists_fn = None
    /\ dump_file = None
    /\ svc_memberlist \in Payloads(RosterEntries, MaxRoster)
    /\ svc_customlists = <<>>
    /\ svc_members = MembersFixed
    /\ op = "" /\ pc = "idle" /\ error = "" /\ requests = <<>>
    /\ limit = None /\ fetch_members = TRUE /\ list_ids = None /\ items = <<>>
    /\ idx = 1 /\ count = 0 /\ all_mlists = <<>> /\ considered = <<>>
    /\ res = <<>> /\ list_data = <<>> /\ mlist = None
    /\ phone = None /\ phone_out = None

NextMembers == get_all_members

SpecMembers == InitMembers /\ [][NextMembers]_vars

----------------------------------------------------------------------------
(* SpecDump: clients that dump and restore the raw payloads. *)

DumpListEntries ==
    UNION {{[key |-> k, data |-> d] :
               d \in ListDataOf(k, {k}, {<<>>, [aliases |-> <<n_s, k_s>>]})} :
              k \in ListKeys}

DumpRosters ==
    {<<>>,
     <<[key |-> 1, data |-> CHOOSE d \in RosterRecords(1) :
                       d.member_no = Field(1) /\ "email" \notin DOMAIN d]>>,
     <<[key |-> 2, data |-> CHOOSE d \in RosterRecords(2) :
                       d.member_no = Field(2) /\ "email" \in DOMAIN d /\ d.email = Field(ax)]>>}

InitDump ==
    /\ session_memberlist \in BOOLEAN
    /\ session_customlists \in BOOLEAN
    /\ memberlist_fn = None
    /\ customlists_fn = None
    /\ dump_file = None
    /\ svc_memberlist \in DumpRosters
    /\ svc_customlists \in Payloads(DumpListEntries, MaxLists)
    /\ svc_members = MembersFixed
    /\ op = "" /\ pc = "idle" /\ error = "" /\ requests = <<>>
    /\ limit = None /\ fetch_members = TRUE /\ list_ids = None /\ items = <<>>
    /\ idx = 1 /\ count = 0 /\ all_mlists = <<>> /\ considered = <<>>
    /\ res = <<>> /\ list_data = <<>> /\ mlist = None
    /\ phone = None /\ phone_out = None

NextDump ==
    \/ \E km, kc \in BOOLEAN : init_client(km, kc)
    \/ dump
    \/ restore
    \/ get_all_members
    \/ call_get_all_lists(None, TRUE, None)
    \/ loop_step
    \/ loop_end
    \/ finish

SpecDump == InitDump /\ [][NextDump]_vars

----------------------------------------------------------------------------
(* SpecPhone: phone_to_e164 over phone strings assembled from pieces. *)

\* "0", "+", "46", "-", " ", "7012", "34567", "1"
Pieces == {<<48>>, <<43>>, <<52, 54>>, <<45>>, <<32>>,
           <<55, 48, 49, 50>>, <<51, 52, 53, 54, 55>>, <<49>>}

RECURSIVE PhoneStrings(_)
PhoneStrings(n) ==
    IF n = 0 THEN {<<>>}
    ELSE LET shorter == PhoneStrings(n - 1)
         IN shorter \cup {s \o q : s \in shorter, q \in Pieces}

InitPhone ==
    /\ session_memberlist = TRUE
    /\ session_customlists = TRUE
    /\ memberlist_fn = None
    /\ customlists_fn = None
    /\ dump_file = None
    /\ svc_memberlist = <<>>
    /\ svc_customlists = <<>>
    /\ svc_members = MembersFixed
    /\ op = "" /\ pc = "idle" /\ error = "" /\ requests = <<>>
    /\ limit = None /\ fetch_members = TRUE /\ list_ids = None /\ items = <<>>
    /\ idx = 1 /\ count = 0 /\ all_mlists = <<>> /\ considered = <<>>
    /\ res = <<>> /\ list_data = <<>> /\ mlist = None
    /\ phone \in {None} \cup {Some(s) : s \in PhoneStrings(MaxPieces)}
    /\ phone_out = None

NextPhone == call_phone_to_e164

SpecPhone == InitPhone /\ [][NextPhone]_vars

----------------------------------------------------------------------------
(* The properties. *)

\* the live outcome of get_all_lists on the customlists items `its`: the
\* loop of get_all_lists run to its end by a client holding a session
RECURSIVE run_get_all_lists(_, _, _, _, _, _, _, _)
run_get_all_lists(its, i, c, all, lim, fm, ids, svc) ==
    IF i > Len(its) THEN [error |-> "", all_mlists |-> all]
    ELSE LET e == its[i]
             r == get_list(e.data, fm, TRUE, svc)
             all2 == IF included(r.mlist[1]) THEN (e.key :> r.mlist[1]) @@ all ELSE all
         IN IF skipped(ids, e.key)
            THEN run_get_all_lists(its, i + 1, c, all, lim, fm, ids, svc)
            ELSE IF r.error # "" THEN [error |-> r.error, all_mlists |-> <<>>]
            ELSE IF limit_reached(lim, c + 1) THEN [error |-> "", all_mlists |-> all2]
            ELSE run_get_all_lists(its, i + 1, c + 1, all2, lim, fm, ids, svc)

NoLink(d) == "link" \notin DOMAIN d
AliasCount(d) == IF "aliases" \in DOMAIN d THEN Len(d.aliases) ELSE 0
DataOf(key) == (CHOOSE e \in Range(items) : e.key = key).data
KeysOf(its) == [i \in 1..Len(its) |-> its[i].key]
Min(a, b) == IF a < b THEN a ELSE b
StrictlyAscending(s) == \A i, j \in DOMAIN s : i < j => StrLess(s[i], s[j])

\* C1: get_all_lists(fetch_members=False) requests no list's link at any
\* point of the call, and every list it has collected (and returns) has
\* members = None and recipients = None.
C1_NoMemberFetch ==
    (op = "get_all_lists" /\ ~fetch_members) =>
        /\ \A i \in DOMAIN requests : requests[i] \notin Links
        /\ \A k \in DOMAIN all_mlists :
               all_mlists[k].members = None /\ all_mlists[k].recipients = None

C1_Witness ==
    /\ op = "get_all_lists" /\ ~fetch_members /\ pc = "done"
    /\ Cardinality(DOMAIN all_mlists) = 2
    /\ requests = <<"customlists">>

\* C2: when get_all_lists(limit=n) returns, it has passed to get_list no
\* more than n lists, and exactly the first min(n, number of lists the id
\* filter lets through) of them, in payload order.
C2_LimitBoundsConsidered ==
    (op = "get_all_lists" /\ limit # None /\ pc = "done") =>
        LET surviving == KeysOf(SelectSeq(items, LAMBDA e : ~skipped(list_ids, e.key)))
        IN /\ Len(considered) <= limit[1]
           /\ considered = SubSeq(surviving, 1, Min(limit[1], Len(surviving)))

\* C3: when get_all_lists was given list_ids and returns, no list whose key
\* is not in list_ids was passed to get_list, had its link requested, was
\* counted toward limit or is in the result.
C3_IdFilterSkips ==
    (op = "get_all_lists" /\ list_ids # None /\ pc = "done") =>
        /\ \A i \in DOMAIN considered : considered[i] \in list_ids[1]
        /\ \A k \in DOMAIN all_mlists : k \in list_ids[1]
        /\ \A i \in DOMAIN items :
               (items[i].key \notin list_ids[1] /\ ~NoLink(items[i].data)) =>
                   items[i].data.link \notin Range(requests)
        /\ count <= Cardinality({i \in DOMAIN items : items[i].key \in list_ids[1]})

\* C4: every list collected by get_all_lists has at least one alias, and on
\* return a considered list is in the result, under its key and built from its
\* own metadata, exactly when its metadata carries at least one alias.
C4_AliasFilter ==
    op = "get_all_lists" =>
        /\ \A k \in DOMAIN all_mlists : Len(all_mlists[k].aliases) > 0
        /\ pc = "done" =>
               \A i \in DOMAIN considered :
                   LET k == considered[i]
                   IN /\ k \in DOMAIN all_mlists <=> AliasCount(DataOf(k)) > 0
                      /\ k \in DOMAIN all_mlists =>
                             /\ all_mlists[k].id = DataOf(k).id
                             /\ Range(all_mlists[k].aliases) = Range(DataOf(k).aliases)

C4_Witness ==
    /\ op = "get_all_lists" /\ pc = "done" /\ fetch_members
    /\ Len(considered) = 2
    /\ Cardinality(DOMAIN all_mlists) = 1
    /\ \E i \in DOMAIN considered :
           /\ considered[i] \notin DOMAIN all_mlists
           /\ ~NoLink(DataOf(considered[i]))
           /\ svc_members[DataOf(considered[i]).link] # <<>>

\* C6: get_list with fetch_members true on metadata without a link raises
\* ValueError having made no request; in get_all_lists the list without a
\* link is the last one considered, the call has raised ValueError and the
\* only member requests made are those of the lists considered before it.
C6_MissingLinkAborts ==
    /\ (op = "get_list" /\ fetch_members /\ NoLink(list_data)) =>
           pc = "raised" /\ error = "ValueError" /\ requests = <<>> /\ mlist = None
    /\ (op = "get_all_lists" /\ fetch_members) =>
           \A i \in DOMAIN considered :
               NoLink(DataOf(considered[i])) =>
                   /\ i = Len(considered)
                   /\ pc = "raised" /\ error = "ValueError"
                   /\ requests = <<"customlists">> \o
                          [j \in 1..(i - 1) |-> DataOf(considered[j]).link]

C6_Witness ==
    /\ op = "get_all_lists" /\ fetch_members
    /\ pc = "raised" /\ error = "ValueError"
    /\ Len(considered) = 2
    /\ Len(requests) = 2

\* C10: get_list on metadata without a link raises ValueError whatever
\* fetch_members is and whether or not the client holds a session, having
\* made no request; get_all_lists(fetch_members=False) has raised ValueError
\* at the first considered list without a link, with no member request made.
C10_LinkCheckedFirst ==
    /\ (op = "get_list" /\ NoLink(list_data)) =>
           pc = "raised" /\ error = "ValueError" /\ requests = <<>>
    /\ (op = "get_all_lists" /\ ~fetch_members) =>
           /\ \A i \in DOMAIN considered :
                  NoLink(DataOf(considered[i])) =>
                      /\ i = Len(considered)
                      /\ pc = "raised" /\ error = "ValueError"
                      /\ requests = <<"customlists">>
           /\ pc = "done" => \A i \in DOMAIN considered : ~NoLink(DataOf(considered[i]))

C10_Witness ==
    /\ op = "get_all_lists" /\ ~fetch_members
    /\ pc = "raised" /\ error = "ValueError"
    /\ Len(considered) = 2
    /\ all_mlists # <<>>

\* the lower-cased email and extra_emails values of the raw records
PayloadAddresses(recs) ==
    UNION {(IF "email" \in DOMAIN r /\ "value" \in DOMAIN r.email
            THEN {Lower(r.email.value)} ELSE {})
           \cup {Lower(r.extra_emails.value[i]) : i \in DOMAIN r.extra_emails.value} :
           r \in Range(recs)}

\* C7: a list built by get_list has as aliases the strictly ascending
\* sequence of the distinct alias values of its metadata and, with
\* fetch_members true, as recipients the strictly ascending sequence of
\* exactly the lower-cased email and extra_emails values of the member
\* records of the fetched payload.
C7_SortedRecipientsAndAliases ==
    (op = "get_list" /\ pc = "done") =>
        /\ StrictlyAscending(mlist[1].aliases)
        /\ Range(mlist[1].aliases) =
               (IF "aliases" \in DOMAIN list_data THEN Range(list_data.aliases) ELSE {})
        /\ fetch_members =>
               /\ mlist[1].recipients # None
               /\ StrictlyAscending(mlist[1].recipients[1])
               /\ Range(mlist[1].recipients[1]) =
                      PayloadAddresses(svc_members[list_data.link])

\* "a@x" with extra_emails ["A@X", "b@x"] gives exactly ["a@x", "b@x"], and
\* the aliases {1: "n@s", 2: "k@s", 3: "n@s"} give ["k@s", "n@s"]
C7_Witness ==
    /\ op = "get_list" /\ pc = "done" /\ fetch_members
    /\ svc_members[list_data.link] = <<MemberRecord(1, [email |-> Field(a_x)], <<A_X, b_x>>)>>
    /\ mlist[1].recipients = Some(<<a_x, b_x>>)
    /\ Get(list_data, "aliases") = Some(<<n_s, k_s, n_s>>)
    /\ mlist[1].aliases = <<k_s, n_s>>

\* C5: on a client whose methods replay a dump, get_all_members and
\* get_all_lists (arguments at their defaults) end as they do on a live
\* client whose service returns the dumped payloads: the same result, or the
\* same exception.
C5_RestoreEqualsLive ==
    /\ (op = "get_all_lists" /\ customlists_fn # None /\ pc \in {"done", "raised"}) =>
           LET live == run_get_all_lists(customlists_fn[1], 1, 0, <<>>,
                                         None, TRUE, None, svc_members)
           IN /\ error = live.error
              /\ pc = "done" => all_mlists = live.all_mlists
    /\ (op = "get_all_members" /\ memberlist_fn # None /\ pc \in {"done", "raised"}) =>
           LET bad == \E i \in DOMAIN memberlist_fn[1] :
                          Member_validate(data_validate(memberlist_fn[1][i].data)) = None
           IN /\ error = (IF bad THEN "ValidationError" ELSE "")
              /\ pc = "done" => res = roster_of(memberlist_fn[1])

\* C8: get_all_members makes a single roster request and, when it returns,
\* every entry (k, m) of its result has k = m.member_no.
C8_KeyedByMemberNo ==
    (op = "get_all_members" /\ pc = "done") =>
        /\ requests = <<"memberlist">>
        /\ \A k \in DOMAIN res : res[k].member_no = k

\* '+' followed by at least 11 digits
Canonical(s) ==
    /\ Len(s) >= 12
    /\ s[1] = 43
    /\ \A i \in 2..Len(s) : s[i] \in 48..57

\* C9: phone_to_e164 returns None or '+' followed by at least 11 digits; it
\* returns None for None, and a string of that form unchanged.
C9_PhoneCanonicalOrAbsent ==
    (op = "phone_to_e164" /\ pc = "done") =>
        /\ phone_out = None \/ Canonical(phone_out[1])
        /\ phone = None => phone_out = None
        /\ (phone # None /\ Canonical(phone[1])) => phone_out = phone

====
